---- MODULE Spec2Model ----
(***************************************************************************)
(* Claim resubmission pipeline: src/claim_pipeline.py (normalizers, the    *)
(* two source adapters, the eligibility classifier, the recommendation     *)
(* resolver and the orchestrator with its metrics) and the earlier variant *)
(* src/claim_data_pipeline.py (same helpers, different orchestrator).      *)
(*                                                                         *)
(* Python strings are sequences of one-character strings, so that strip,   *)
(* lower, endswith, substring search and date parsing are computed and not *)
(* assumed.  Python's None and a JSON number are the two values below that *)
(* no character sequence can equal.                                        *)
(***************************************************************************)
EXTENDS Integers, Sequences, FiniteSets, TLC

None == <<"<None>">>
JNum == <<"<number>">>

IsStr(x) == x /= None /\ x /= JNum

\* `not x` of Python for a value that is None or a string
Falsy(x) == x = None \/ x = <<>>

---------------------------------------------------------------------------
(* str methods *)

UpperChars == <<"A","B","C","D","E","F","G","H","I","J","K","L","M",
                "N","O","P","Q","R","S","T","U","V","W","X","Y","Z">>
LowerChars == <<"a","b","c","d","e","f","g","h","i","j","k","l","m",
                "n","o","p","q","r","s","t","u","v","w","x","y","z">>
Whitespace == {" ", "\t", "\n", "\r"}
DigitChars == <<"0","1","2","3","4","5","6","7","8","9">>

LowerOf == [c \in {UpperChars[i] : i \in 1..26} |->
              LowerChars[CHOOSE i \in 1..26 : UpperChars[i] = c]]

UpperOf == [c \in {LowerChars[i] : i \in 1..26} |->
              UpperChars[CHOOSE i \in 1..26 : LowerChars[i] = c]]

lower_char(c) == IF c \in DOMAIN LowerOf THEN LowerOf[c] ELSE c

upper_char(c) == IF c \in DOMAIN UpperOf THEN UpperOf[c] ELSE c

str_lower(s) == [i \in 1..Len(s) |-> lower_char(s[i])]

str_upper(s) == [i \in 1..Len(s) |-> upper_char(s[i])]

SetMin(S) == CHOOSE x \in S : \A y \in S : x <= y

SetMax(S) == CHOOSE x \in S : \A y \in S : y <= x

str_strip(s) ==
    LET keep == {i \in 1..Len(s) : s[i] \notin Whitespace}
    IN  IF keep = {} THEN <<>> ELSE SubSeq(s, SetMin(keep), SetMax(keep))

str_endswith(s, suffix) ==
    /\ Len(s) >= Len(suffix)
    /\ SubSeq(s, Len(s) - Len(suffix) + 1, Len(s)) = suffix

\* kw in s
str_contains(s, kw) ==
    \E i \in 1..(Len(s) - Len(kw) + 1) : SubSeq(s, i, i + Len(kw) - 1) = kw

\* s.split(sep) for a one-character separator
RECURSIVE str_split(_, _)
str_split(s, sep) ==
    IF \A i \in 1..Len(s) : s[i] /= sep
    THEN <<s>>
    ELSE LET k == SetMin({i \in 1..Len(s) : s[i] = sep})
         IN  <<SubSeq(s, 1, k - 1)>> \o str_split(SubSeq(s, k + 1, Len(s)), sep)

IsDigits(s) ==
    /\ Len(s) > 0
    /\ \A i \in 1..Len(s) : \E d \in 1..10 : DigitChars[d] = s[i]

digit_val(c) == (CHOOSE d \in 1..10 : DigitChars[d] = c) - 1

RECURSIVE int_of(_)
int_of(s) ==
    IF Len(s) = 0 THEN 0
    ELSE 10 * int_of(SubSeq(s, 1, Len(s) - 1)) + digit_val(s[Len(s)])

\* n written with at least `width` digits, zero padded (format %0<width>d)
RECURSIVE zero_pad(_, _)
zero_pad(n, width) ==
    IF width <= 1 /\ n < 10 THEN <<DigitChars[n + 1]>>
    ELSE zero_pad(n \div 10, width - 1) \o <<DigitChars[(n % 10) + 1]>>

---------------------------------------------------------------------------
(* datetime *)

is_leap(y) == (y % 4 = 0) /\ ((y % 100 /= 0) \/ (y % 400 = 0))

days_in_month(y, m) ==
    IF m = 2 THEN (IF is_leap(y) THEN 29 ELSE 28)
    ELSE IF m \in {4, 6, 9, 11} THEN 30 ELSE 31

RECURSIVE days_before_month(_, _)
days_before_month(y, m) ==
    IF m <= 1 THEN 0 ELSE days_before_month(y, m - 1) + days_in_month(y, m - 1)

\* date.toordinal(): day 1 is 0001-01-01
toordinal(d) ==
    LET y == d[1] - 1
    IN  y * 365 + (y \div 4) - (y \div 100) + (y \div 400)
          + days_before_month(d[1], d[2]) + d[3]

\* date.isoformat()
isoformat(d) ==
    zero_pad(d[1], 4) \o <<"-">> \o zero_pad(d[2], 2) \o <<"-">> \o zero_pad(d[3], 2)

ValueError == <<0, 0, 0>>

\* a field of 1 or 2 digits with a value in lo..hi
Field2(s, lo, hi) ==
    /\ IsDigits(s)
    /\ Len(s) \in {1, 2}
    /\ int_of(s) \in lo..hi

\* datetime.strptime(s, '%Y-%m-%d').date(): the date, or ValueError
strptime_date(s) ==
    LET p == str_split(s, "-")
    IN  IF /\ Len(p) = 3
           /\ IsDigits(p[1]) /\ Len(p[1]) = 4 /\ int_of(p[1]) >= 1
           /\ Field2(p[2], 1, 12)
           /\ Field2(p[3], 1, 31)
           /\ int_of(p[3]) <= days_in_month(int_of(p[1]), int_of(p[2]))
        THEN <<int_of(p[1]), int_of(p[2]), int_of(p[3])>>
        ELSE ValueError

\* datetime.strptime(s, '%Y-%m-%dT%H:%M:%S').date(): the date, or ValueError
strptime_datetime(s) ==
    LET p == str_split(s, "T")
    IN  IF Len(p) /= 2 THEN ValueError
        ELSE LET t == str_split(p[2], ":")
             IN  IF /\ Len(t) = 3
                    /\ Field2(t[1], 0, 23)
                    /\ Field2(t[2], 0, 59)
                    /\ Field2(t[3], 0, 59)
                 THEN strptime_date(p[1])
                 ELSE ValueError

---------------------------------------------------------------------------
(* Config of claim_pipeline.py *)

TODAY == <<2025, 7, 30>>

s_missing_modifier == <<"m","i","s","s","i","n","g"," ","m","o","d","i","f","i","e","r">>
s_incorrect_npi == <<"i","n","c","o","r","r","e","c","t"," ","n","p","i">>
s_prior_auth_required == <<"p","r","i","o","r"," ","a","u","t","h"," ","r","e","q","u","i","r","e","d">>
s_authorization_expired == <<"a","u","t","h","o","r","i","z","a","t","i","o","n"," ","e","x","p","i","r","e","d">>
s_incorrect_provider_type == <<"i","n","c","o","r","r","e","c","t"," ","p","r","o","v","i","d","e","r"," ","t","y","p","e">>
s_incorrect_procedure == <<"i","n","c","o","r","r","e","c","t"," ","p","r","o","c","e","d","u","r","e">>
s_form_incomplete == <<"f","o","r","m"," ","i","n","c","o","m","p","l","e","t","e">>
s_not_billable == <<"n","o","t"," ","b","i","l","l","a","b","l","e">>
s_denied == <<"d","e","n","i","e","d">>
s_none == <<"n","o","n","e">>

RETRYABLE == {s_missing_modifier, s_incorrect_npi, s_prior_auth_required}

NON_RETRYABLE == {s_authorization_expired, s_incorrect_provider_type}

KEYWORDS == {s_incorrect_procedure, s_form_incomplete, s_not_billable}

FALLBACK == "Review claim details, supply missing info and resubmit"

RECOMMENDATIONS ==
    (s_missing_modifier :> "Add correct CPT modifier, resubmit")
 @@ (s_incorrect_npi :> "Review provider NPI, correct and resubmit")
 @@ (s_prior_auth_required :> "Obtain/attach prior authorization and resubmit")
 @@ (s_incorrect_procedure :> "Verify CPT/HCPCS code mapping, correct if needed and resubmit")
 @@ (s_form_incomplete :> "Fill missing fields and resubmit")
 @@ (s_not_billable :> "Confirm coverage/payer policy; update claim or appeal")

---------------------------------------------------------------------------
(* Utility functions of claim_pipeline.py.  A function that can raise has *)
(* a companion predicate <name>_raises.                                   *)

\* strptime raises TypeError on a non-string; ValueError is caught inside
to_iso_date_raises(date_str) == date_str = JNum

to_iso_date(date_str) ==
    IF Falsy(date_str) THEN None
    ELSE IF strptime_date(date_str) /= ValueError
         THEN isoformat(strptime_date(date_str))
         ELSE IF strptime_datetime(date_str) /= ValueError
              THEN isoformat(strptime_datetime(date_str))
              ELSE None

\* .strip() of a non-string raises AttributeError
remove_whitespaces_raises(input_str) == input_str = JNum

remove_whitespaces(input_str) ==
    IF input_str = None THEN None
    ELSE IF str_strip(input_str) /= <<>> THEN str_strip(input_str) ELSE None

to_lower(input_str) ==
    IF Falsy(input_str) THEN None ELSE str_lower(input_str)

\* older_than with >= for >: a claim exactly `days` old passes
older_than_inclusive(d_iso, days, today) ==
    IF Falsy(d_iso) THEN FALSE
    ELSE toordinal(today) - toordinal(strptime_date(d_iso)) >= days

older_than(d_iso, days, today) ==
    IF Falsy(d_iso) THEN FALSE
    ELSE toordinal(today) - toordinal(strptime_date(d_iso)) > days

---------------------------------------------------------------------------
(* Step 1: schema normalization.  A source row is a function from column  *)
(* or key names to values; dict.get gives None for a missing key.         *)

Get(row, key) == IF key \in DOMAIN row THEN row[key] ELSE None

load_alpha_raises(row) ==
    \/ \E k \in {"denial_reason", "claim_id", "patient_id", "procedure_code", "status"} :
          remove_whitespaces_raises(Get(row, k))
    \/ to_iso_date_raises(Get(row, "submitted_at"))

\* the record yielded for one row of the CSV reader
load_alpha(row) ==
    LET val == remove_whitespaces(Get(row, "denial_reason"))
        denial == IF val = None \/ str_lower(val) \in {s_none, <<>>} THEN None ELSE val
    IN  [claim_id       |-> remove_whitespaces(Get(row, "claim_id")),
         patient_id     |-> remove_whitespaces(Get(row, "patient_id")),
         procedure_code |-> remove_whitespaces(Get(row, "procedure_code")),
         denial_reason  |-> denial,
         status         |-> to_lower(remove_whitespaces(Get(row, "status"))),
         submitted_at   |-> to_iso_date(Get(row, "submitted_at")),
         source_system  |-> "alpha"]

load_beta_raises(row) ==
    \/ \E k \in {"id", "member", "code", "error_msg", "status"} :
          remove_whitespaces_raises(Get(row, k))
    \/ to_iso_date_raises(Get(row, "date"))

\* the record yielded for one element of the JSON array
load_beta(row) ==
    [claim_id       |-> remove_whitespaces(Get(row, "id")),
     patient_id     |-> remove_whitespaces(Get(row, "member")),
     procedure_code |-> remove_whitespaces(Get(row, "code")),
     denial_reason  |-> remove_whitespaces(Get(row, "error_msg")),
     status         |-> to_lower(remove_whitespaces(Get(row, "status"))),
     submitted_at   |-> to_iso_date(Get(row, "date")),
     source_system  |-> "beta"]

---------------------------------------------------------------------------
(* Step 2: eligibility logic *)

\* classify_denial without the lower(): the reason is matched as written
classify_denial_as_written(reason) ==
    IF reason = None THEN "ambiguous"
    ELSE LET r == reason
         IN  IF r \in RETRYABLE THEN "retryable"
             ELSE IF r \in NON_RETRYABLE THEN "non-retryable"
             ELSE IF \E kw \in KEYWORDS : str_contains(r, kw) THEN "retryable"
             ELSE "ambiguous"

\* classify_denial taking a missing reason for a retryable one
classify_denial_missing_retryable(reason) ==
    IF reason = None THEN "retryable"
    ELSE LET r == str_lower(reason)
         IN  IF r \in RETRYABLE THEN "retryable"
             ELSE IF r \in NON_RETRYABLE THEN "non-retryable"
             ELSE IF \E kw \in KEYWORDS : str_contains(r, kw) THEN "retryable"
             ELSE "ambiguous"

classify_denial(reason) ==
    IF reason = None THEN "ambiguous"
    ELSE LET r == str_lower(reason)
         IN  IF r \in RETRYABLE THEN "retryable"
             ELSE IF r \in NON_RETRYABLE THEN "non-retryable"
             ELSE IF \E kw \in KEYWORDS : str_contains(r, kw) THEN "retryable"
             ELSE "ambiguous"

\* the pair (flag, reason) is_eligible returns
is_eligible(claim) ==
    IF claim.status /= s_denied THEN <<FALSE, None>>
    ELSE IF Falsy(claim.patient_id) THEN <<FALSE, None>>
    ELSE IF ~older_than(claim.submitted_at, 7, TODAY) THEN <<FALSE, None>>
    ELSE IF classify_denial(claim.denial_reason) /= "retryable" THEN <<FALSE, None>>
    ELSE <<TRUE, claim.denial_reason>>

\* recommended_changes looking the reason up as written
recommended_changes_as_written(reason) ==
    IF reason = None THEN FALLBACK
    ELSE IF reason \in DOMAIN RECOMMENDATIONS
         THEN RECOMMENDATIONS[reason]
         ELSE FALLBACK

recommended_changes(reason) ==
    IF reason = None THEN FALLBACK
    ELSE IF str_lower(reason) \in DOMAIN RECOMMENDATIONS
         THEN RECOMMENDATIONS[str_lower(reason)]
         ELSE FALLBACK

---------------------------------------------------------------------------
(* The environment: the paths given on the command line and what the files *)
(* hold.  A file's content is fixed when the adapter opens it.             *)

MaxFiles == 2
MaxRows == 2

p_alpha == <<"a","l","p","h","a",".","c","s","v">>
p_beta == <<"b","e","t","a",".","j","s","o","n">>
p_other == <<"n","o","t","e","s",".","t","x","t">>

Paths == {p_alpha, p_beta, p_other}

ext_csv == <<".","c","s","v">>
ext_json == <<".","j","s","o","n">>

AlphaRow(claim_id, patient_id, denial_reason, status, submitted_at) ==
    [claim_id |-> claim_id, patient_id |-> patient_id, procedure_code |-> <<"9","9","2","1","3">>,
     denial_reason |-> denial_reason, status |-> status, submitted_at |-> submitted_at]

BetaRow(id, member, error_msg, status, date) ==
    [id |-> id, member |-> member, code |-> <<"9","9","2","1","3">>,
     error_msg |-> error_msg, status |-> status, date |-> date]

\* denied, patient P1, 2025-07-01, 'Missing modifier'
a_eligible == AlphaRow(<<"A","1">>, <<"P","1">>, <<"M","i","s","s","i","n","g"," ","m","o","d","i","f","i","e","r">>, <<"d","e","n","i","e","d">>, <<"2","0","2","5","-","0","7","-","0","1">>)
\* approved and no patient
a_approved == AlphaRow(<<"A","2">>, <<>>, <<"N","o","n","e">>, <<"a","p","p","r","o","v","e","d">>, <<"2","0","2","5","-","0","7","-","0","1">>)
\* denied, patient blank
a_nopatient == AlphaRow(<<"A","3">>, <<" "," ">>, <<"M","i","s","s","i","n","g"," ","m","o","d","i","f","i","e","r">>, <<"D","e","n","i","e","d">>, <<"2","0","2","5","-","0","7","-","0","1">>)
\* denied, exactly 7 days before TODAY
a_recent == AlphaRow(<<"A","4">>, <<"P","1">>, <<"I","n","c","o","r","r","e","c","t"," ","N","P","I">>, <<"d","e","n","i","e","d">>, <<"2","0","2","5","-","0","7","-","2","3">>)

\* denied, patient P1, old enough, the 'none' sentinel as reason
a_noreason == AlphaRow(<<"A","5">>, <<"P","1">>, <<"n","o","n","e">>, <<"d","e","n","i","e","d">>, <<"2","0","2","5","-","0","7","-","0","1">>)

AlphaRows == {a_eligible, a_approved, a_nopatient, a_recent, a_noreason}

\* denied, retryable by keyword only, date with a time of day
b_eligible == BetaRow(<<"B","1">>, <<"M","1">>, <<"F","o","r","m"," ","i","n","c","o","m","p","l","e","t","e"," ","-"," ","s","i","g","n","a","t","u","r","e">>, <<" ","D","E","N","I","E","D"," ">>, <<"2","0","2","5","-","0","7","-","0","1","T","0","9",":","3","0",":","0","0">>)
\* a number where a string is expected
b_number == BetaRow(JNum, <<"M","1">>, <<"F","o","r","m"," ","i","n","c","o","m","p","l","e","t","e"," ","-"," ","s","i","g","n","a","t","u","r","e">>, <<"d","e","n","i","e","d">>, <<"2","0","2","5","-","0","7","-","0","1">>)
\* denied, old enough, patient present, non-retryable reason
b_expired == BetaRow(<<"B","3">>, <<"M","1">>, <<"A","u","t","h","o","r","i","z","a","t","i","o","n"," ","e","x","p","i","r","e","d">>, <<"d","e","n","i","e","d">>, <<"2","0","2","5","-","0","7","-","0","1">>)

BetaRows == {b_eligible, b_number, b_expired}

(* The rows the helper functions are called on directly: every combination *)
(* of the field values below, as a CSV row and as a JSON object.           *)
FnStatus == {<<"d","e","n","i","e","d">>, <<" ","D","e","n","i","e","d">>, <<"a","p","p","r","o","v","e","d">>, None}

FnPatient == {<<"P","1">>, <<" "," ">>}

FnDate == {<<"2","0","2","5","-","0","7","-","2","2">>, <<"2","0","2","5","-","0","7","-","2","3">>, <<"2","0","2","5","-","0","7","-","3","0">>, <<"2","0","2","5","-","0","8","-","0","2">>, <<"2","0","2","5","-","7","-","1">>,
           <<"2","0","2","4","-","0","2","-","2","9","T","2","3",":","5","9",":","5","9">>, <<"2","0","2","5","-","0","2","-","3","0">>, <<"0","7","/","0","1","/","2","0","2","5">>, None}

FnReason == {<<"M","i","s","s","i","n","g"," ","m","o","d","i","f","i","e","r">>, <<"M","I","S","S","I","N","G"," ","M","O","D","I","F","I","E","R">>, s_missing_modifier, <<"I","n","c","o","r","r","e","c","t"," ","N","P","I">>, <<"P","r","i","o","r"," ","a","u","t","h"," ","r","e","q","u","i","r","e","d">>,
             <<"A","u","t","h","o","r","i","z","a","t","i","o","n"," ","e","x","p","i","r","e","d">>, <<"A","U","T","H","O","R","I","Z","A","T","I","O","N"," ","E","X","P","I","R","E","D">>, <<"I","n","c","o","r","r","e","c","t"," ","p","r","o","v","i","d","e","r"," ","t","y","p","e">>,
             <<"F","o","r","m"," ","i","n","c","o","m","p","l","e","t","e"," ","-"," ","s","i","g","n","a","t","u","r","e">>, <<"S","e","r","v","i","c","e"," ","N","O","T"," ","B","I","L","L","A","B","L","E">>, <<"i","n","c","o","r","r","e","c","t"," ","p","r","o","c","e","d","u","r","e"," ","c","o","d","e">>,
             <<"M","i","s","s","i","n","g"," ","m","o","d","i","f","i","e","r"," ","2","5">>, <<"D","u","p","l","i","c","a","t","e"," ","c","l","a","i","m">>, <<"N","o","n","e">>, <<>>}

FnAlphaRows ==
    {AlphaRow(<<"A","1">>, pt, r, st, d) :
        pt \in FnPatient, r \in FnReason, st \in FnStatus, d \in FnDate}

FnBetaRows ==
    {BetaRow(<<"B","1">>, pt, r, st, d) :
        pt \in FnPatient \cup {JNum}, r \in FnReason, st \in FnStatus, d \in FnDate}

SeqsUpTo(S, n) == UNION {[1..k -> S] : k \in 0..n}

---------------------------------------------------------------------------
(* State *)

VARIABLES
    input_files,   \* pipeline's argument: the paths, in order
    pc,            \* "select" | "open" | "records" | "done" | "raised"
    idx,           \* position of `path` in input_files
    adapter,       \* which generator `records` is: "alpha" | "beta" | "none"
    rows,          \* what the open source holds
    pos,           \* rows the generator has consumed
    candidates,    \* pipeline's candidates list
    metrics,       \* pipeline's metrics dict
    log,           \* what went to the logger: <<level, path>> entries
    output,        \* writes of resubmission_candidates.json, in order
    metrics_file,  \* writes of pipeline_metrics.log, in order
    expected,      \* history: candidates of the eligible rows of every source opened
    fn_row, fn_claim, fn_ret, fn_pc   \* a direct call of the helper functions

vars == <<input_files, pc, idx, adapter, rows, pos, candidates, metrics, log,
          output, metrics_file, expected, fn_row, fn_claim, fn_ret, fn_pc>>

pipeline_vars == <<input_files, pc, idx, adapter, rows, pos, candidates, metrics,
                   log, output, metrics_file, expected>>

fn_vars == <<fn_row, fn_claim, fn_ret, fn_pc>>

---------------------------------------------------------------------------
(* Step 3 of claim_pipeline.py: pipeline *)

metrics_init ==
    [total_processed |-> 0,
     by_source |-> [alpha |-> 0, beta |-> 0],
     flagged_for_resubmission |-> 0,
     excluded_by_reason |->
         ("not_denied_status" :> 0) @@ ("patient_id_missing" :> 0) @@ ("too_recent" :> 0)
      @@ ("non-retryable_or_ambiguous" :> 0) @@ ("malformed" :> 0)]

\* the dict appended to candidates, lines 194-199
Candidate(rec, reason) ==
    [claim_id |-> rec.claim_id,
     resubmission_reason |-> reason,
     source_system |-> rec.source_system,
     recommended_changes |-> recommended_changes(reason)]

\* the key the else branch of the loop body increments, lines 203-210
exclusion_key(rec) ==
    IF rec.status /= s_denied THEN "not_denied"
    ELSE IF Falsy(rec.patient_id) THEN "patient_missing"
    ELSE IF ~older_than(rec.submitted_at, 7, TODAY) THEN "too_recent"
    ELSE "non_retryable_or_ambiguous"

(* The adapters and helper functions over the rows and records this      *)
(* model's sources hold, computed once: Yielded[row] is <<raises, record>> *)
(* for the adapter of the row's source.                                    *)
Yielded ==
    [row \in AlphaRows \cup BetaRows |->
        IF row \in AlphaRows
        THEN <<load_alpha_raises(row), load_alpha(row)>>
        ELSE <<load_beta_raises(row), load_beta(row)>>]

Records == {Yielded[row][2] : row \in DOMAIN Yielded}

IsEligible == [rec \in Records |-> is_eligible(rec)]

ExclusionKey == [rec \in Records |-> exclusion_key(rec)]

CandidateOf == [rec \in Records |-> Candidate(rec, IsEligible[rec][2])]

\* d[key] += 1 reads d[key] first: a missing key raises KeyError and d is unchanged
incr_raises(d, key) == key \notin DOMAIN d

incr(d, key) == [d EXCEPT ![key] = @ + 1]

\* metrics after the counting at the top of the loop body, lines 186-188
count_record(m, rec) ==
    LET m1 == [m EXCEPT !.total_processed = @ + 1]
    IN  IF rec.source_system \in DOMAIN m1.by_source
        THEN [m1 EXCEPT !.by_source = incr(@, rec.source_system)]
        ELSE m1

\* classify_record with d[key] = d.get(key, 0) + 1 for the exclusion counters
classify_record_setdefault(m, rec) ==
    IF IsEligible[rec][1]
    THEN [m EXCEPT !.flagged_for_resubmission = @ + 1]
    ELSE IF incr_raises(m.excluded_by_reason, ExclusionKey[rec])
         THEN [m EXCEPT !.excluded_by_reason = (ExclusionKey[rec] :> 1) @@ @]
         ELSE [m EXCEPT !.excluded_by_reason = incr(@, ExclusionKey[rec])]

\* metrics after the inner try/except of the loop body, lines 190-212
classify_record(m, rec) ==
    IF IsEligible[rec][1]
    THEN [m EXCEPT !.flagged_for_resubmission = @ + 1]
    ELSE IF incr_raises(m.excluded_by_reason, ExclusionKey[rec])
         THEN [m EXCEPT !.excluded_by_reason = incr(@, "malformed")]
         ELSE [m EXCEPT !.excluded_by_reason = incr(@, ExclusionKey[rec])]

\* candidates after the inner try/except of the loop body
append_candidate(cands, rec) ==
    IF IsEligible[rec][1] THEN Append(cands, CandidateOf[rec]) ELSE cands

\* source_failed that only logs
source_failed_uncounted(m) == m

\* the except clause of the outer try, lines 213-215
source_failed(m) == [m EXCEPT !.excluded_by_reason = incr(@, "malformed")]

Row == rows[pos + 1]

\* the candidates of the rows of a source that are eligible, in order
RECURSIVE EligibleOf(_)
EligibleOf(content) ==
    IF content = <<>> THEN <<>>
    ELSE LET y == Yielded[Head(content)]
         IN  (IF ~y[1] /\ IsEligible[y[2]][1] THEN <<CandidateOf[y[2]]>> ELSE <<>>)
             \o EligibleOf(Tail(content))

InitFn ==
    /\ fn_row = a_eligible
    /\ fn_claim = load_alpha(a_eligible)
    /\ fn_ret = <<>>
    /\ fn_pc = "unused"

InitPipeline(files) ==
    /\ input_files \in files
    /\ pc = "select"
    /\ idx = 1
    /\ adapter = "none"
    /\ rows = <<>>
    /\ pos = 0
    /\ candidates = <<>>
    /\ metrics = metrics_init
    /\ log = <<>>
    /\ output = <<>>
    /\ metrics_file = <<>>
    /\ expected = <<>>

Init == InitPipeline(SeqsUpTo(Paths, MaxFiles)) /\ InitFn

\* lines 172-183: the next path, and the adapter its extension selects
SelectAdapter ==
    /\ pc = "select"
    /\ idx <= Len(input_files)
    /\ LET path == input_files[idx]
       IN  IF str_endswith(path, ext_csv)
           THEN /\ adapter' = "alpha"
                /\ pc' = "open"
                /\ UNCHANGED <<idx, log>>
           ELSE IF str_endswith(path, ext_json)
           THEN /\ adapter' = "beta"
                /\ pc' = "open"
                /\ UNCHANGED <<idx, log>>
           ELSE /\ log' = Append(log, <<"warning", path>>)
                /\ idx' = idx + 1
                /\ UNCHANGED <<adapter, pc>>
    /\ UNCHANGED <<input_files, rows, pos, candidates, metrics, output, metrics_file,
                   expected, fn_vars>>

\* the generator's first step opens (and, for JSON, parses) the file
OpenSource ==
    /\ pc = "open"
    /\ \E content \in SeqsUpTo(IF adapter = "alpha" THEN AlphaRows ELSE BetaRows, MaxRows) :
          /\ rows' = content
          /\ expected' = expected \o EligibleOf(content)
    /\ pos' = 0
    /\ pc' = "records"
    /\ UNCHANGED <<input_files, idx, adapter, candidates, metrics, log, output,
                   metrics_file, fn_vars>>

\* lines 213-215: the file cannot be opened or parsed
OpenFails ==
    /\ pc = "open"
    /\ log' = Append(log, <<"error", input_files[idx]>>)
    /\ metrics' = source_failed(metrics)
    /\ idx' = idx + 1
    /\ adapter' = "none"
    /\ pc' = "select"
    /\ UNCHANGED <<input_files, rows, pos, candidates, output, metrics_file, expected, fn_vars>>

\* lines 185-212: one record yielded and the loop body run on it
ProcessRecord ==
    /\ pc = "records"
    /\ pos < Len(rows)
    /\ ~Yielded[Row][1]
    /\ metrics' = classify_record(count_record(metrics, Yielded[Row][2]), Yielded[Row][2])
    /\ candidates' = append_candidate(candidates, Yielded[Row][2])
    /\ pos' = pos + 1
    /\ UNCHANGED <<input_files, pc, idx, adapter, rows, log, output, metrics_file,
                   expected, fn_vars>>

\* the adapter raises while mapping a row: the exception leaves the for loop
\* over records and reaches the outer handler, lines 213-215
RecordRaises ==
    /\ pc = "records"
    /\ pos < Len(rows)
    /\ Yielded[Row][1]
    /\ log' = Append(log, <<"error", input_files[idx]>>)
    /\ metrics' = source_failed(metrics)
    /\ idx' = idx + 1
    /\ adapter' = "none"
    /\ rows' = <<>>
    /\ pos' = 0
    /\ pc' = "select"
    /\ UNCHANGED <<input_files, candidates, output, metrics_file, expected, fn_vars>>

\* the generator is exhausted: on to the next path
SourceDone ==
    /\ pc = "records"
    /\ pos = Len(rows)
    /\ idx' = idx + 1
    /\ adapter' = "none"
    /\ rows' = <<>>
    /\ pos' = 0
    /\ pc' = "select"
    /\ UNCHANGED <<input_files, candidates, metrics, log, output, metrics_file,
                   expected, fn_vars>>

\* lines 217-233: both files written, the result returned
Finalize ==
    /\ pc = "select"
    /\ idx > Len(input_files)
    /\ output' = Append(output, candidates)
    /\ metrics_file' = Append(metrics_file, metrics)
    /\ pc' = "done"
    /\ UNCHANGED <<input_files, idx, adapter, rows, pos, candidates, metrics, log,
                   expected, fn_vars>>

Next ==
    \/ SelectAdapter
    \/ OpenSource
    \/ OpenFails
    \/ ProcessRecord
    \/ RecordRaises
    \/ SourceDone
    \/ Finalize

Spec == Init /\ [][Next]_vars

\* the interpreter runs the single thread until pipeline returns
FairSpec == Spec /\ WF_vars(Next)

---------------------------------------------------------------------------
(* The helper functions of claim_pipeline.py called directly on one row: *)
(* the adapter first, then one of the functions on the yielded record.     *)

InitCalls ==
    /\ InitPipeline({<<>>})
    /\ fn_row \in FnAlphaRows \cup FnBetaRows
    /\ fn_claim = load_alpha(a_eligible)
    /\ fn_ret = <<>>
    /\ fn_pc = "row"

CallAdapter ==
    /\ fn_pc = "row"
    /\ IF fn_row \in FnAlphaRows
       THEN /\ fn_claim' = load_alpha(fn_row)
            /\ fn_pc' = IF load_alpha_raises(fn_row) THEN "raised" ELSE "record"
       ELSE /\ fn_claim' = load_beta(fn_row)
            /\ fn_pc' = IF load_beta_raises(fn_row) THEN "raised" ELSE "record"
    /\ UNCHANGED <<fn_row, fn_ret, pipeline_vars>>

CallClassifyDenial ==
    /\ fn_pc = "record"
    /\ fn_ret' = classify_denial(fn_claim.denial_reason)
    /\ fn_pc' = "classify_denial"
    /\ UNCHANGED <<fn_row, fn_claim, pipeline_vars>>

CallIsEligible ==
    /\ fn_pc = "record"
    /\ fn_ret' = is_eligible(fn_claim)
    /\ fn_pc' = "is_eligible"
    /\ UNCHANGED <<fn_row, fn_claim, pipeline_vars>>

CallRecommendedChanges ==
    /\ fn_pc = "record"
    /\ fn_ret' = recommended_changes(fn_claim.denial_reason)
    /\ fn_pc' = "recommended_changes"
    /\ UNCHANGED <<fn_row, fn_claim, pipeline_vars>>

NextCalls ==
    \/ CallAdapter
    \/ CallClassifyDenial
    \/ CallIsEligible
    \/ CallRecommendedChanges

SpecCalls == InitCalls /\ [][NextCalls]_vars

---------------------------------------------------------------------------
(* claim_data_pipeline.py: where it differs from claim_pipeline.py.  Its  *)
(* remove_whitespaces, to_lower, older_than and the body of is_eligible    *)
(* are the same text.                                                      *)

RETRYABLE_cdp == {<<"M","i","s","s","i","n","g"," ","m","o","d","i","f","i","e","r">>, <<"I","n","c","o","r","r","e","c","t"," ","N","P","I">>, <<"P","r","i","o","r"," ","a","u","t","h"," ","r","e","q","u","i","r","e","d">>}

NON_RETRYABLE_cdp == {<<"A","u","t","h","o","r","i","z","a","t","i","o","n"," ","e","x","p","i","r","e","d">>, <<"I","n","c","o","r","r","e","c","t"," ","p","r","o","v","i","d","e","r"," ","t","y","p","e">>}

ext_csv_cdp == <<"c","s","v">>

\* the second strptime's result is not returned: the function falls off its end
to_iso_date_cdp(date_str) ==
    IF Falsy(date_str) THEN None
    ELSE IF strptime_date(date_str) /= ValueError
         THEN isoformat(strptime_date(date_str))
         ELSE None

load_alpha_cdp_raises(row) ==
    \/ \E k \in {"claim_id", "patient_id", "procedure_code", "status"} :
          remove_whitespaces_raises(Get(row, k))
    \/ ~IsStr(Get(row, "denial_reason"))
    \/ to_iso_date_raises(Get(row, "submitted_at"))

\* str(<bound method lower> in {'none', ''}) is the string 'False', which is true
load_alpha_cdp(row) ==
    LET text == IF FALSE THEN "True" ELSE "False"
    IN  [claim_id       |-> remove_whitespaces(Get(row, "claim_id")),
         patient_id     |-> remove_whitespaces(Get(row, "patient_id")),
         procedure_code |-> remove_whitespaces(Get(row, "procedure_code")),
         denial_reason  |-> IF text /= "" THEN None
                            ELSE remove_whitespaces(Get(row, "denial_reason")),
         status         |-> to_lower(remove_whitespaces(Get(row, "status"))),
         submitted_at   |-> to_iso_date_cdp(Get(row, "submitted_at")),
         source_system  |-> "alpha"]

load_beta_cdp_raises(row) ==
    \/ \E k \in {"claim_id", "patient_id", "procedure_code", "error_msg", "status"} :
          remove_whitespaces_raises(Get(row, k))
    \/ to_iso_date_raises(Get(row, "submitted_at"))

load_beta_cdp(row) ==
    [claim_id       |-> remove_whitespaces(Get(row, "claim_id")),
     patient_id     |-> remove_whitespaces(Get(row, "patient_id")),
     procedure_code |-> remove_whitespaces(Get(row, "procedure_code")),
     denial_reason  |-> remove_whitespaces(Get(row, "error_msg")),
     status         |-> to_lower(remove_whitespaces(Get(row, "status"))),
     submitted_at   |-> to_iso_date_cdp(Get(row, "submitted_at")),
     source_system  |-> "beta"]

classify_denial_cdp(reason) ==
    IF reason = None THEN "ambiguous"
    ELSE LET r == str_lower(reason)
         IN  IF r \in RETRYABLE_cdp THEN "retryable"
             ELSE IF r \in NON_RETRYABLE_cdp THEN "non-retryable"
             ELSE IF \E kw \in KEYWORDS : str_contains(r, kw) THEN "retryable"
             ELSE "ambiguous"

is_eligible_cdp(claim) ==
    IF claim.status /= s_denied THEN <<FALSE, None>>
    ELSE IF Falsy(claim.patient_id) THEN <<FALSE, None>>
    ELSE IF ~older_than(claim.submitted_at, 7, TODAY) THEN <<FALSE, None>>
    ELSE IF classify_denial_cdp(claim.denial_reason) /= "retryable" THEN <<FALSE, None>>
    ELSE <<TRUE, claim.denial_reason>>

\* a JSON object with the keys this file's load_beta reads
j_eligible ==
    [claim_id |-> <<"B","1">>, patient_id |-> <<"M","1">>, procedure_code |-> <<"9","9","2","1","3">>,
     error_msg |-> <<"F","o","r","m"," ","i","n","c","o","m","p","l","e","t","e"," ","-"," ","s","i","g","n","a","t","u","r","e">>, status |-> <<"d","e","n","i","e","d">>, submitted_at |-> <<"2","0","2","5","-","0","7","-","0","1">>]

BetaRows_cdp == BetaRows \cup {j_eligible}

\* <<raises, is_eligible's flag>> for each row, computed once
Yielded_cdp ==
    [row \in AlphaRows \cup BetaRows_cdp |->
        IF row \in AlphaRows
        THEN <<load_alpha_cdp_raises(row), is_eligible_cdp(load_alpha_cdp(row))[1]>>
        ELSE <<load_beta_cdp_raises(row), is_eligible_cdp(load_beta_cdp(row))[1]>>]

\* lines 151-158
SelectAdapter_cdp ==
    /\ pc = "select"
    /\ idx <= Len(input_files)
    /\ LET path == input_files[idx]
       IN  IF str_endswith(path, ext_csv_cdp)
           THEN /\ adapter' = "alpha"
                /\ pc' = "open"
                /\ UNCHANGED <<idx, log>>
           ELSE IF str_endswith(path, ext_json)
           THEN /\ adapter' = "beta"
                /\ pc' = "open"
                /\ UNCHANGED <<idx, log>>
           ELSE /\ log' = Append(log, <<"warning", path>>)
                /\ idx' = idx + 1
                /\ UNCHANGED <<adapter, pc>>
    /\ UNCHANGED <<input_files, rows, pos, candidates, metrics, output, metrics_file,
                   expected, fn_vars>>

\* the generator's first step opens the file
OpenSource_cdp ==
    /\ pc = "open"
    /\ rows' \in SeqsUpTo(IF adapter = "alpha" THEN AlphaRows ELSE BetaRows_cdp, MaxRows)
    /\ pos' = 0
    /\ pc' = "records"
    /\ UNCHANGED <<input_files, idx, adapter, candidates, metrics, log, output,
                   metrics_file, expected, fn_vars>>

\* no handler in this file: the exception leaves pipeline
OpenFails_cdp ==
    /\ pc = "open"
    /\ pc' = "raised"
    /\ UNCHANGED <<input_files, idx, adapter, rows, pos, candidates, metrics, log,
                   output, metrics_file, expected, fn_vars>>

\* lines 160-169.  candidates is the typing alias List[Dict[str, Any]], so
\* candidates.append(<dict>) raises TypeError; so does a row the adapter chokes on
ProcessRecord_cdp ==
    /\ pc = "records"
    /\ pos < Len(rows)
    /\ IF Yielded_cdp[Row][1] \/ Yielded_cdp[Row][2]
       THEN pc' = "raised" /\ pos' = pos
       ELSE pc' = pc /\ pos' = pos + 1
    /\ UNCHANGED <<input_files, idx, adapter, rows, candidates, metrics, log, output,
                   metrics_file, expected, fn_vars>>

\* lines 170-174, inside the loop over paths: the output file is opened for
\* writing (created or truncated), json.dump raises TypeError on the alias before
\* anything is written, and the return of line 174 is not reached
WriteOutput_cdp ==
    /\ pc = "records"
    /\ pos = Len(rows)
    /\ output' = Append(output, <<>>)
    /\ pc' = "raised"
    /\ UNCHANGED <<input_files, idx, adapter, rows, pos, candidates, metrics, log,
                   metrics_file, expected, fn_vars>>

\* every path was skipped: the loop ends and pipeline returns None
ReturnNone_cdp ==
    /\ pc = "select"
    /\ idx > Len(input_files)
    /\ pc' = "done"
    /\ UNCHANGED <<input_files, idx, adapter, rows, pos, candidates, metrics, log,
                   output, metrics_file, expected, fn_vars>>

Next_cdp ==
    \/ SelectAdapter_cdp
    \/ OpenSource_cdp
    \/ OpenFails_cdp
    \/ ProcessRecord_cdp
    \/ WriteOutput_cdp
    \/ ReturnNone_cdp

Spec_cdp == Init /\ [][Next_cdp]_vars

---------------------------------------------------------------------------
(* Properties *)

Excluded(key) == metrics.excluded_by_reason[key]

RECURSIVE SumOver(_, _)
SumOver(f, keys) ==
    IF keys = {} THEN 0
    ELSE LET k == CHOOSE x \in keys : TRUE
         IN  f[k] + SumOver(f, keys \ {k})

SumExcluded == SumOver(metrics.excluded_by_reason, DOMAIN metrics.excluded_by_reason)

Logged(level) == Cardinality({i \in 1..Len(log) : log[i][1] = level})

\* days from an ISO date to the reference date
AgeDays(iso) == toordinal(TODAY) - toordinal(strptime_date(iso))

SameIgnoringCase(a, b) == str_upper(a) = str_upper(b)

ContainsIgnoringCase(s, kw) == str_contains(str_upper(s), str_upper(kw))

\* the record the generator yields next
NextRec == Yielded[Row][2]

\* the exclusion counter of the first gate a record fails
FirstFailedGate(rec) ==
    IF rec.status /= s_denied THEN "not_denied_status"
    ELSE IF rec.patient_id = None THEN "patient_id_missing"
    ELSE IF rec.submitted_at = None \/ AgeDays(rec.submitted_at) <= 7 THEN "too_recent"
    ELSE "non-retryable_or_ambiguous"

(* C1: a record that fails is_eligible adds one to the exclusion counter of *)
(* the first gate it fails, in the order not-denied, patient-missing,       *)
(* too-recent, non-retryable-or-ambiguous, and to no other counter (so      *)
(* never to malformed).                                                     *)
C1_ExclusionBucket ==
    [][(pc = "records" /\ pos' = pos + 1 /\ ~IsEligible[NextRec][1])
        => metrics'.excluded_by_reason =
             [metrics.excluded_by_reason EXCEPT ![FirstFailedGate(NextRec)] = @ + 1]]_vars

(* C2: a row whose mapping raises inside the adapter affects that record   *)
(* alone: it is counted in total_processed and in malformed, yields no      *)
(* candidate, and the same source goes on with its next row.                *)
C2_BadRecordOnly ==
    [][(pc = "records" /\ pos < Len(rows) /\ Yielded[Row][1])
        => /\ metrics'.total_processed = metrics.total_processed + 1
           /\ metrics'.excluded_by_reason["malformed"] = Excluded("malformed") + 1
           /\ candidates' = candidates
           /\ idx' = idx
           /\ pos' = pos + 1
           /\ pc' = "records"]_vars

(* C3: a source that cannot be opened or parsed adds exactly 1 to          *)
(* malformed, changes no other counter, adds no candidate, and the loop     *)
(* goes on with the next path; every run reaches the end with every path    *)
(* visited.                                                                 *)
C3_SourceFailure ==
    /\ [][(pc = "open" /\ pc' /= "records")
           => /\ metrics' = [metrics EXCEPT !.excluded_by_reason["malformed"] = @ + 1]
              /\ candidates' = candidates
              /\ idx' = idx + 1
              /\ pc' = "select"]_vars
    /\ [](pc = "done" => idx = Len(input_files) + 1 /\ Len(output) = 1)
    /\ <>(pc = "done")

C3_Witness ==
    /\ pc = "done"
    /\ Len(input_files) = 2
    /\ log = << <<"error", input_files[1]>> >>
    /\ Excluded("malformed") = 1
    /\ metrics.total_processed = 2
    /\ Len(candidates) = 1

(* C4: at the end of a run the candidate list is exactly the candidates of *)
(* the eligible rows of the sources, in input order, and                    *)
(* flagged_for_resubmission is its length.                                  *)
C4_CandidatesInInputOrder ==
    pc = "done" =>
        /\ candidates = expected
        /\ metrics.flagged_for_resubmission = Len(candidates)

(* C5: is_eligible returns (True, denial_reason) exactly when status is    *)
(* 'denied', patient_id is present, submitted_at is present and more than 7 *)
(* days before the reference date (7 days exactly: rejected) and the reason *)
(* classifies as retryable; otherwise (False, None).                        *)
C5_IsEligible ==
    fn_pc = "is_eligible" =>
        LET c == fn_claim
            ok == /\ c.status = s_denied
                  /\ c.patient_id /= None
                  /\ c.submitted_at /= None
                  /\ AgeDays(c.submitted_at) > 7
                  /\ classify_denial(c.denial_reason) = "retryable"
        IN  /\ fn_ret = IF ok THEN <<TRUE, c.denial_reason>> ELSE <<FALSE, None>>
            /\ c.submitted_at = <<"2","0","2","5","-","0","7","-","2","3">> => ~fn_ret[1]

C5_Witness ==
    /\ fn_pc = "is_eligible"
    /\ fn_claim.submitted_at = <<"2","0","2","5","-","0","7","-","2","2">>
    /\ fn_claim.denial_reason = <<"F","o","r","m"," ","i","n","c","o","m","p","l","e","t","e"," ","-"," ","s","i","g","n","a","t","u","r","e">>
    /\ fn_ret = <<TRUE, <<"F","o","r","m"," ","i","n","c","o","m","p","l","e","t","e"," ","-"," ","s","i","g","n","a","t","u","r","e">>>>

\* the classification the rules give, case ignored
RuleClass(reason) ==
    IF reason = None THEN "ambiguous"
    ELSE IF \E m \in RETRYABLE : SameIgnoringCase(m, reason) THEN "retryable"
    ELSE IF \E m \in NON_RETRYABLE : SameIgnoringCase(m, reason) THEN "non-retryable"
    ELSE IF \E kw \in KEYWORDS : ContainsIgnoringCase(reason, kw) THEN "retryable"
    ELSE "ambiguous"

(* C6: classify_denial is total and three-valued, follows the rules in     *)
(* their order of precedence, and does not depend on the letter case of     *)
(* the reason.                                                              *)
C6_ClassifyDenial ==
    fn_pc = "classify_denial" =>
        LET r == fn_claim.denial_reason
        IN  /\ fn_ret \in {"retryable", "non-retryable", "ambiguous"}
            /\ fn_ret = RuleClass(r)
            /\ r /= None => /\ classify_denial(str_upper(r)) = fn_ret
                            /\ classify_denial(str_lower(r)) = fn_ret

C6_Witness ==
    /\ fn_pc = "classify_denial"
    /\ fn_claim.denial_reason = <<"M","I","S","S","I","N","G"," ","M","O","D","I","F","I","E","R">>
    /\ fn_ret = "retryable"

(* C7: every candidate's recommended_changes is the remediation mapped to  *)
(* its lowercased reason when that is a key of RECOMMENDATIONS and the      *)
(* fallback otherwise; the CSV row denied / P1 / 2025-07-01 / 'Missing      *)
(* modifier' alone yields one candidate with 'Add correct CPT modifier,     *)
(* resubmit'.                                                               *)
C7_Recommendation ==
    /\ \A i \in 1..Len(candidates) :
          LET c == candidates[i]
              k == str_lower(c.resubmission_reason)
          IN  c.recommended_changes =
                 IF k \in DOMAIN RECOMMENDATIONS THEN RECOMMENDATIONS[k] ELSE FALLBACK
    /\ (input_files = <<p_alpha>> /\ pc = "records" /\ rows = <<a_eligible>> /\ pos = 1)
          => candidates = <<[claim_id |-> <<"A","1">>,
                             resubmission_reason |-> <<"M","i","s","s","i","n","g"," ","m","o","d","i","f","i","e","r">>,
                             source_system |-> "alpha",
                             recommended_changes |-> "Add correct CPT modifier, resubmit"]>>

C7_Witness ==
    /\ pc = "done"
    /\ Len(candidates) = 2
    /\ candidates[1].resubmission_reason = <<"M","i","s","s","i","n","g"," ","m","o","d","i","f","i","e","r">>
    /\ candidates[1].recommended_changes = "Add correct CPT modifier, resubmit"
    /\ candidates[2].resubmission_reason = <<"F","o","r","m"," ","i","n","c","o","m","p","l","e","t","e"," ","-"," ","s","i","g","n","a","t","u","r","e">>
    /\ candidates[2].recommended_changes = FALLBACK

(* C8: claim_data_pipeline.py's pipeline writes the candidate output once, *)
(* after every path of input_files has been visited.                        *)
C8_OutputAfterAllSources ==
    /\ Len(output) <= 1
    /\ output /= <<>> => idx >= Len(input_files)

(* C9: total_processed = by_source alpha + beta; flagged_for_resubmission  *)
(* = number of candidates; flagged + all exclusion counters =                *)
(* total_processed + the sources the source-level handler aborted; the       *)
(* exclusion keys are those of the start; a path of unrecognized kind        *)
(* changes no counter.                                                       *)
C9_MetricsConservation ==
    /\ [](/\ metrics.total_processed = metrics.by_source.alpha + metrics.by_source.beta
          /\ metrics.flagged_for_resubmission = Len(candidates)
          /\ metrics.flagged_for_resubmission + SumExcluded
                = metrics.total_processed + Logged("error")
          /\ DOMAIN metrics.excluded_by_reason =
                {"not_denied_status", "patient_id_missing", "too_recent",
                 "non-retryable_or_ambiguous", "malformed"})
    /\ [][(pc = "select" /\ idx <= Len(input_files) /\ input_files[idx] = p_other)
           => metrics' = metrics /\ candidates' = candidates]_vars

C9_Witness ==
    /\ pc = "done"
    /\ Logged("warning") = 1
    /\ Logged("error") = 1
    /\ metrics.total_processed = 1
    /\ Excluded("malformed") = 2

(* C10: a candidate is appended only for a record with status 'denied', a  *)
(* patient_id, a submitted_at more than 7 days before the reference date    *)
(* and a present denial_reason classified retryable; no candidate has an    *)
(* absent resubmission_reason.                                              *)
C10_CandidatesAreEligible ==
    /\ [](\A i \in 1..Len(candidates) : candidates[i].resubmission_reason /= None)
    /\ [][Len(candidates') > Len(candidates)
           => LET rec == NextRec
                  c == candidates'[Len(candidates')]
              IN  /\ rec.status = s_denied
                  /\ rec.patient_id /= None
                  /\ rec.submitted_at /= None
                  /\ AgeDays(rec.submitted_at) > 7
                  /\ rec.denial_reason /= None
                  /\ RuleClass(rec.denial_reason) = "retryable"
                  /\ c.claim_id = rec.claim_id
                  /\ c.resubmission_reason = rec.denial_reason]_vars

C10_Witness ==
    /\ pc = "records"
    /\ pos = 2
    /\ rows = <<a_noreason, a_eligible>>
    /\ Len(candidates) = 1
    /\ candidates[1].claim_id = <<"A","1">>

====
